---------------------------- MODULE Spec2Model ----------------------------
(***************************************************************************)
(* A model of data-lander (o2ba/dsa-data-analysis): the archive extractor  *)
(* (unzipper.rs), the record filter/encoder and the per-file publisher     *)
(* (converter_uploader.rs, main.rs) and the category collector             *)
(* (platform_collector.rs).                                                *)
(*                                                                         *)
(* Each component has its own specification over the shared variables:     *)
(*   SpecSanitize   PlatformDataCollector::sanitize_platform_name          *)
(*   SpecFilter     process_csv_to_parquet_bytes                           *)
(*   SpecRun        main's per-file loop + convert_filter_and_upload_direct*)
(*   SpecCollector  PlatformDataCollector (add_csv_data, consolidate)      *)
(*   SpecUnzip      streamed_unzip                                         *)
(*                                                                         *)
(* Text is modelled as a sequence of one-character strings wherever the    *)
(* code looks at characters (sanitization); elsewhere a string is a TLA+   *)
(* string and equality is exact (case-sensitive), as == on &str is.        *)
(***************************************************************************)
EXTENDS Integers, Sequences, FiniteSets, TLC

VARIABLES
  \* ---- sanitize_platform_name, applied once and then to its own result
  sn_pc,            \* "idle" | "input" | "once" | "twice"
  sn_input,         \* platform_name: &str
  sn_out,           \* sanitize_platform_name(platform_name)
  sn_again,         \* sanitize_platform_name(sn_out)
  \* ---- process_csv_to_parquet_bytes, called once
  ft_file,          \* the file at csv_path
  ft_allowed,       \* allowed_platforms: &[&str]
  ft_result,        \* its return value, or NotRun
  \* ---- main's per-file loop
  url,              \* the URL environment variable (its kind)
  extracted_files,  \* main: the Vec<PathBuf> streamed_unzip returned, with each file
  idx,              \* main: position of the for loop in extracted_files
  run_status,       \* "idle" | "running" | "done" | "failed"
  run_error,        \* the error main returned, or NoError
  bucket,           \* the object store: destination key -> artifact
  put_calls,        \* every put_object call made: [key, at, outcome]
  visited,          \* the file indexes the loop body has run for, in order
  outcomes,         \* what the loop body got for each of them, in order
  \* ---- PlatformDataCollector
  allowed_platforms,\* self.allowed_platforms
  platform_data,    \* self.platform_data: key -> Vec<DataFrame>
  c_files,          \* the files add_csv_data was called with, in order
  c_results,        \* what each of those calls returned
  c_query,          \* the last consolidate_platform_data call: [key, result]
  \* ---- streamed_unzip
  uz_root,          \* the archive at zip_file of the outermost call
  uz_status,        \* "idle" | "called" | "running" | "ok" | "failed"
  stack,            \* the active streamed_unzip calls, outermost first
  fs,               \* the file system: path -> "dir" | "file"
  uz_result,        \* the Vec<PathBuf> the outermost call returned
  uz_origins,       \* for each returned path, the nested archive it came from
  uz_error          \* the error the outermost call returned

svars == <<sn_pc, sn_input, sn_out, sn_again>>
fvars == <<ft_file, ft_allowed, ft_result>>
rvars == <<url, extracted_files, idx, run_status, run_error, bucket,
          put_calls, visited, outcomes>>

cvars == <<allowed_platforms, platform_data, c_files, c_results, c_query>>

uvars == <<uz_root, uz_status, stack, fs, uz_result, uz_origins, uz_error>>

vars == <<svars, fvars, rvars, cvars, uvars>>

(***************************************************************************)
(* The state of a component that a specification leaves alone.             *)
(***************************************************************************)
NotRun == [tag |-> "NotRun"]
NoError == [kind |-> "none"]

SanitizeIdle ==
  /\ sn_pc = "idle"
  /\ sn_input = <<>>
  /\ sn_out = <<>>
  /\ sn_again = <<>>

FilterIdle ==
  /\ ft_file = [exists |-> FALSE]
  /\ ft_allowed = <<>>
  /\ ft_result = NotRun

RunIdle ==
  /\ url = [date |-> <<0, 0, 0>>, variant |-> "unset", has_light |-> FALSE]
  /\ extracted_files = <<>>
  /\ idx = 0
  /\ run_status = "idle"
  /\ run_error = NoError
  /\ bucket = <<>>
  /\ put_calls = <<>>
  /\ visited = <<>>
  /\ outcomes = <<>>

NoQuery == [key |-> <<>>, result |-> NotRun]

CollectorIdle ==
  /\ allowed_platforms = <<>>
  /\ platform_data = [ k \in {} |-> <<>> ]
  /\ c_files = <<>>
  /\ c_results = <<>>
  /\ c_query = NoQuery

UnzipIdle ==
  /\ uz_root = [valid |-> FALSE, entries |-> <<>>]
  /\ uz_status = "idle"
  /\ stack = <<>>
  /\ fs = [ p \in {} |-> "dir" ]
  /\ uz_result = <<>>
  /\ uz_origins = <<>>
  /\ uz_error = NoError

(***************************************************************************)
(* Bounds of the model.                                                    *)
(***************************************************************************)
MaxLen == 4          \* longest platform name drawn for sanitization
MaxRows == 3         \* most data rows of a source file
MaxFiles == 3        \* most paths in the list streamed_unzip hands to main
MaxAdds == 3         \* most add_csv_data calls on one collector
MaxEntries == 3      \* most entries of the outermost archive
MaxDepth == 4        \* nesting depth of streamed_unzip calls the model follows

(***************************************************************************)
(* Characters.                                                             *)
(***************************************************************************)
UpperChars == <<"A","B","C","D","E","F","G","H","I","J","K","L","M",
                "N","O","P","Q","R","S","T","U","V","W","X","Y","Z">>
LowerChars == <<"a","b","c","d","e","f","g","h","i","j","k","l","m",
                "n","o","p","q","r","s","t","u","v","w","x","y","z">>
DigitChars == <<"0","1","2","3","4","5","6","7","8","9">>

Range(s) == { s[i] : i \in DOMAIN s }

\* char::to_lowercase on the characters the model draws ("É" stands for the
\* non-ASCII letters: it lowers to "é", which the regex does not keep either).
ToLowerChar(c) ==
  IF c \in Range(UpperChars)
    THEN LowerChars[CHOOSE i \in DOMAIN UpperChars : UpperChars[i] = c]
    ELSE IF c = "É" THEN "é" ELSE c

\* str::to_lowercase
ToLowercase(s) == [ i \in DOMAIN s |-> ToLowerChar(s[i]) ]

\* The character class of the sanitization regex, [^a-zA-Z0-9\-_], negated:
\* the characters the regex does NOT match (and so leaves in place).
RegexKeeps(c) ==
  c \in Range(LowerChars) \cup Range(UpperChars) \cup Range(DigitChars) \cup {"-", "_"}

\* Regex::replace_all(text, "-"): every matched character becomes one hyphen.
ReplaceAll(s) == [ i \in DOMAIN s |-> IF RegexKeeps(s[i]) THEN s[i] ELSE "-" ]

\* str::split('-'): the pieces between hyphens, empty pieces included.
RECURSIVE SplitHyphen(_)
SplitHyphen(s) ==
  IF \A i \in DOMAIN s : s[i] # "-"
    THEN << s >>
    ELSE LET k == CHOOSE i \in DOMAIN s :
                     s[i] = "-" /\ \A j \in 1..(i-1) : s[j] # "-"
         IN  << SubSeq(s, 1, k-1) >> \o SplitHyphen(SubSeq(s, k+1, Len(s)))

\* str::trim_matches('-')
RECURSIVE TrimMatches(_)
TrimMatches(s) ==
  IF s = <<>> THEN s
  ELSE IF Head(s) = "-" THEN TrimMatches(Tail(s))
  ELSE IF s[Len(s)] = "-" THEN TrimMatches(SubSeq(s, 1, Len(s)-1))
  ELSE s

\* A plausible slip: strip_prefix/strip_suffix, which remove one hyphen only.
TrimOnce(s) ==
  LET a == IF s # <<>> /\ Head(s) = "-" THEN Tail(s) ELSE s
  IN  IF a # <<>> /\ a[Len(a)] = "-" THEN SubSeq(a, 1, Len(a)-1) ELSE a

\* Vec<&str>::join("-")
RECURSIVE JoinHyphen(_)
JoinHyphen(parts) ==
  IF parts = <<>> THEN <<>>
  ELSE IF Len(parts) = 1 THEN parts[1]
  ELSE parts[1] \o <<"-">> \o JoinHyphen(Tail(parts))

NonEmptyPart(p) == p # <<>>

Unknown == <<"u","n","k","n","o","w","n">>

\* The same function with the trim done by TrimOnce and the empty pieces kept.
SanitizeTrimOnce(platform_name) ==
  LET sanitized == ReplaceAll(ToLowercase(platform_name))
      cleaned   == JoinHyphen(SplitHyphen(TrimOnce(sanitized)))
  IN  IF cleaned = <<>> THEN Unknown ELSE cleaned

\* PlatformDataCollector::sanitize_platform_name
sanitize_platform_name(platform_name) ==
  LET sanitized == ReplaceAll(ToLowercase(platform_name))
      cleaned   == JoinHyphen(SelectSeq(SplitHyphen(TrimMatches(sanitized)),
                                        NonEmptyPart))
  IN  IF cleaned = <<>> THEN Unknown ELSE cleaned

(***************************************************************************)
(* SpecSanitize: a platform name is drawn, sanitized, and the result is    *)
(* sanitized again.                                                        *)
(***************************************************************************)
SanAlphabet == {"a", "B", "7", "-", "_", " ", "!", "É"}

RECURSIVE SeqsUpTo(_, _)
SeqsUpTo(S, n) ==
  IF n = 0 THEN { <<>> }
  ELSE LET shorter == SeqsUpTo(S, n-1)
       IN  shorter \cup { Append(s, c) : s \in shorter, c \in S }

\* The names of tests::test_platform_name_sanitization.
TestPlatform123 == <<"T","e","s","t","-","P","l","a","t","f","o","r","m","_","1","2","3">>
GoogleMaps      == <<"G","o","o","g","l","e"," ","M","a","p","s">>
DiscordBV       == <<"D","i","s","c","o","r","d"," ","N","e","t","h","e","r","l","a","n","d","s"," ","B",".","V",".">>
Bangs           == <<"!","!","!">>
TestNames       == { TestPlatform123, GoogleMaps, DiscordBV, Bangs, <<>> }

SanInputs == SeqsUpTo(SanAlphabet, MaxLen) \cup TestNames

InitSanitize ==
  /\ sn_pc = "input"
  /\ sn_input \in SanInputs
  /\ sn_out = <<>>
  /\ sn_again = <<>>
  /\ FilterIdle /\ RunIdle /\ CollectorIdle /\ UnzipIdle

SanitizeOnce ==
  /\ sn_pc = "input"
  /\ sn_out' = sanitize_platform_name(sn_input)
  /\ sn_pc' = "once"
  /\ UNCHANGED <<sn_input, sn_again, fvars, rvars, cvars, uvars>>

SanitizeTwice ==
  /\ sn_pc = "once"
  /\ sn_again' = sanitize_platform_name(sn_out)
  /\ sn_pc' = "twice"
  /\ UNCHANGED <<sn_input, sn_out, fvars, rvars, cvars, uvars>>

NextSanitize == SanitizeOnce \/ SanitizeTwice

SpecSanitize == InitSanitize /\ [][NextSanitize]_vars

\* ^[a-z0-9-]+$
MatchesKeyPattern(s) ==
  /\ s # <<>>
  /\ \A i \in DOMAIN s : s[i] \in Range(LowerChars) \cup Range(DigitChars) \cup {"-"}

\* C5: sanitize_platform_name always yields a non-empty result matching
\* ^[a-z0-9-]+$ (the literal unknown included); an underscore becomes a hyphen,
\* so "Test-Platform_123" gives "test-platform-123"; "" and "!!!" give
\* "unknown".  (The claim as stated; the regex keeps the underscore.)
C5_SanitizeMatchesPattern ==
  sn_pc \in {"once", "twice"} =>
    /\ MatchesKeyPattern(sn_out)
    /\ sn_input = TestPlatform123 =>
         sn_out = <<"t","e","s","t","-","p","l","a","t","f","o","r","m","-","1","2","3">>
    /\ sn_input \in { <<>>, Bangs } => sn_out = Unknown

\* C6: sanitization is idempotent: sanitizing a sanitized name changes nothing.
C6_SanitizeIdempotent ==
  sn_pc = "twice" => sn_again = sn_out

\* C6's case: a name with an underscore and a run of separators, sanitized twice.
C6_Witness ==
  /\ sn_pc = "twice"
  /\ sn_input = <<"_", " ", "!", "a">>
  /\ sn_out = <<"_", "-", "a">>
  /\ sn_again = sn_out

(***************************************************************************)
(* Tables.  A cell of the platform_name column is null or a string; a row  *)
(* is a record over the table's columns; the second column carries a       *)
(* number that tells the rows of a file apart.                             *)
(***************************************************************************)
NullCell == [null |-> TRUE, str |-> <<>>]
Str(s)   == [null |-> FALSE, str |-> s]

Facebook      == <<"F","a","c","e","b","o","o","k">>
FacebookLower == <<"f","a","c","e","b","o","o","k">>
X             == <<"X">>
Nope          == <<"N","o","p","e">>

\* A source file: whether the path exists, its header, its data rows.
MissingFile == [exists |-> FALSE, columns |-> <<>>, rows |-> <<>>]

\* The file whose platform_name cells are `cells`, in this order.
FileWith(cells) ==
  [exists  |-> TRUE,
   columns |-> <<"platform_name", "x">>,
   rows    |-> [ i \in DOMAIN cells |-> [platform_name |-> cells[i], x |-> i] ]]

\* The same rows under a header that has no platform_name column.
FileWithout(cells) ==
  [exists  |-> TRUE,
   columns |-> <<"name", "x">>,
   rows    |-> [ i \in DOMAIN cells |-> [name |-> cells[i], x |-> i] ]]

HasColumn(columns, c) == \E i \in DOMAIN columns : columns[i] = c

(***************************************************************************)
(* process_csv_to_parquet_bytes                                            *)
(***************************************************************************)
\* Expr::is_in(lit(Series), nulls_equal = false) on one cell: a null is in
\* nothing; a string is in the list when it equals one of its elements.
IsInIgnoringCase(cell, allowed) ==
  /\ ~cell.null
  /\ \E i \in DOMAIN allowed :
        ToLowercase(allowed[i]) = ToLowercase(cell.str)

IsIn(cell, allowed) ==
  /\ ~cell.null
  /\ \E i \in DOMAIN allowed : allowed[i] = cell.str

\* LazyFrame::filter(mask).collect(): the rows whose mask is true, walked in
\* source order.
RECURSIVE FilterRows(_, _)
FilterRows(rows, allowed) ==
  IF rows = <<>> THEN <<>>
  ELSE LET rest == FilterRows(Tail(rows), allowed)
       IN  IF IsIn(Head(rows).platform_name, allowed)
             THEN <<Head(rows)>> \o rest
             ELSE rest

\* ParquetWriter::finish: the columnar encoding of a table.
ParquetBytes(columns, rows) ==
  [format |-> "parquet", columns |-> columns, rows |-> rows]

Err(kind)              == [tag |-> "Err", kind |-> kind]
OkNone                 == [tag |-> "None"]
OkSome(buffer, count)  == [tag |-> "Some", buffer |-> buffer, row_count |-> count]

\* The function with a zero-row table reported as the EmptyDataFrame error.
process_csv_empty_is_error(file, allowed, write_ok) ==
  IF ~file.exists THEN Err("InvalidPath")
  ELSE IF ~HasColumn(file.columns, "platform_name") THEN Err("PolarsError")
  ELSE LET filtered_df == FilterRows(file.rows, allowed)
       IN  IF Len(filtered_df) = 0 THEN Err("EmptyDataFrame")
           ELSE IF ~write_ok THEN Err("ParquetWriteError")
           ELSE OkSome(ParquetBytes(file.columns, filtered_df), Len(filtered_df))

\* write_ok: whether ParquetWriter::finish succeeds.
process_csv_to_parquet_bytes(file, allowed, write_ok) ==
  IF ~file.exists THEN Err("InvalidPath")
  ELSE IF ~HasColumn(file.columns, "platform_name") THEN Err("PolarsError")
  ELSE LET filtered_df == FilterRows(file.rows, allowed)
       IN  IF Len(filtered_df) = 0 THEN OkNone
           ELSE IF ~write_ok THEN Err("ParquetWriteError")
           ELSE OkSome(ParquetBytes(file.columns, filtered_df), Len(filtered_df))

(***************************************************************************)
(* SpecFilter: one call of process_csv_to_parquet_bytes on a drawn file    *)
(* and a drawn allow-list.                                                 *)
(***************************************************************************)
FilterCells == { NullCell, Str(Facebook), Str(FacebookLower), Str(X), Str(Nope) }

\* convert_filter_and_upload_direct's allowed_platforms.
ALLOWED_PLATFORMS ==
  << Facebook,
     <<"D","i","s","c","o","r","d"," ","N","e","t","h","e","r","l","a","n","d","s"," ","B",".","V",".">>,
     GoogleMaps,
     <<"I","n","s","t","a","g","r","a","m">>,
     <<"K","l","e","i","n","a","n","z","e","i","g","e","n">>,
     <<"L","e","b","o","n","c","o","i","n">>,
     <<"L","i","n","k","e","d","I","n">>,
     <<"R","e","d","d","i","t">>,
     <<"T","e","l","e","g","r","a","m">>,
     <<"T","i","k","T","o","k">>,
     X >>

FilterAllowLists ==
  { <<>>, <<Facebook>>, <<FacebookLower>>, <<Nope>>, <<X, Facebook>>, ALLOWED_PLATFORMS }

FilterFiles ==
  { MissingFile }
    \cup { FileWith(cells) : cells \in SeqsUpTo(FilterCells, MaxRows) }
    \cup { FileWithout(cells) : cells \in SeqsUpTo(FilterCells, 1) }

InitFilter ==
  /\ ft_file \in FilterFiles
  /\ ft_allowed \in FilterAllowLists
  /\ ft_result = NotRun
  /\ SanitizeIdle /\ RunIdle /\ CollectorIdle /\ UnzipIdle

RunFilter ==
  /\ ft_result = NotRun
  /\ \E write_ok \in BOOLEAN :
       ft_result' = process_csv_to_parquet_bytes(ft_file, ft_allowed, write_ok)
  /\ UNCHANGED <<ft_file, ft_allowed, svars, rvars, cvars, uvars>>

NextFilter == RunFilter

SpecFilter == InitFilter /\ [][NextFilter]_vars

\* The positions of the source rows whose platform_name is a member of A.
MatchingRows(file, A) ==
  { i \in DOMAIN file.rows :
      /\ ~file.rows[i].platform_name.null
      /\ file.rows[i].platform_name.str \in Range(A) }

\* C1: the filter keeps exactly the rows whose platform_name is an exact,
\* case-sensitive member of the allow-list: row_count is the number of such
\* rows, every kept row is such a row of the source, none is kept twice, and
\* the kept rows are in source order (x is the row's position in the source).
\* With no such row the call reports no table at all.
C1_FilterExactInOrder ==
  /\ ft_result.tag = "Some" =>
       LET out == ft_result.buffer.rows
           M   == MatchingRows(ft_file, ft_allowed)
       IN  /\ ft_result.row_count = Cardinality(M)
           /\ Len(out) = Cardinality(M)
           /\ \A k \in DOMAIN out : out[k].x \in M /\ out[k] = ft_file.rows[out[k].x]
           /\ \A j, k \in DOMAIN out : j < k => out[j].x < out[k].x
  /\ ft_result.tag = "None" => MatchingRows(ft_file, ft_allowed) = {}

\* C1's case: a file with a kept row, a row that differs from an allowed name
\* only by case, and a second kept row; two rows survive, in source order.
C1_Witness ==
  /\ ft_file = FileWith(<<Str(X), Str(FacebookLower), Str(Facebook)>>)
  /\ ft_allowed = <<X, Facebook>>
  /\ ft_result.tag = "Some"
  /\ ft_result.row_count = 2
  /\ ft_result.buffer.rows[2].x = 3


(***************************************************************************)
(* Paths.  A path is the sequence of its components below the root; a      *)
(* component is <<stem, extension>> ("a.csv" is <<"a", "csv">>, the         *)
(* directory "inner" is <<"inner", "">>).                                    *)
(***************************************************************************)
\* Path::extension (None is "")
Extension(path) == IF path = <<>> THEN "" ELSE path[Len(path)][2]

\* The stem qualified by the directory the file is in.
FileStemInDirectory(path) ==
  IF path = <<>> THEN ""
  ELSE IF Len(path) = 1 THEN path[1][1]
  ELSE path[Len(path) - 1][1] \o "/" \o path[Len(path)][1]

\* Path::file_stem (None is "")
FileStem(path) == IF path = <<>> THEN "" ELSE path[Len(path)][1]

\* The temporary directory main extracts into.
ExtractDir == << <<"tmp", "">>, <<"x", "">> >>

(***************************************************************************)
(* utils::get_s3_prefix                                                    *)
(***************************************************************************)
\* format!("{:02}", n) and format!("{:04}", n)
Pad2(n) == IF n < 10 THEN "0" \o ToString(n) ELSE ToString(n)
Pad4(n) == IF n < 10 THEN "000" \o ToString(n)
           ELSE IF n < 100 THEN "00" \o ToString(n)
           ELSE IF n < 1000 THEN "0" \o ToString(n)
           ELSE ToString(n)

\* A URL is modelled by what the two regexes and contains("-light") see of it:
\* the date after "global-", the variant that ends the file name ("none" when
\* the name does not end in -light.zip or -full.zip), and whether "-light"
\* occurs anywhere in it.
get_s3_prefix(u) ==
  IF u.variant \notin {"light", "full"} THEN Err("InvalidUrl")
  ELSE [tag   |-> "Ok",
        value |-> (IF u.has_light THEN "global-light/" ELSE "global-full/")
                    \o Pad4(u.date[1]) \o "-" \o Pad2(u.date[2]) \o "-"
                    \o Pad2(u.date[3]) \o "/"]

(***************************************************************************)
(* convert_filter_and_upload_direct                                        *)
(***************************************************************************)
\* What put_object().send() can answer.
PutOutcomes ==
  { "ok", "status301", "status403", "status404", "status400", "status5xx",
    "statusOther", "timeout", "response", "dispatch", "construction", "other" }

\* The map_err closure of the put: the diagnostic the sub-kind is turned into.
S3Detail(outcome) ==
  CASE outcome = "status301"    -> "REGION MISMATCH"
    [] outcome = "status403"    -> "ACCESS DENIED"
    [] outcome = "status404"    -> "bucket may not exist"
    [] outcome = "status400"    -> "Invalid request parameters"
    [] outcome = "status5xx"    -> "AWS server error"
    [] outcome = "statusOther"  -> "S3 Service Error"
    [] outcome = "timeout"      -> "S3 request timed out"
    [] outcome = "response"     -> "S3 Response Error"
    [] outcome = "dispatch"     -> "S3 Dispatch Failure"
    [] outcome = "construction" -> "S3 Construction Failure"
    [] OTHER                    -> "Unknown S3 Error"

\* The function's effect: its return value, the put_object call it made (at
\* most one) and the object store after it.
\*   panicked:    the spawn_blocking worker terminated abnormally
\*   write_ok:    ParquetWriter::finish succeeded
\*   put_outcome: the answer of put_object().send()
Effect(result, calls, store) == [result |-> result, calls |-> calls, store |-> store]

\* The blocking worker of convert_filter_and_upload_direct: the call of
\* process_csv_to_parquet_bytes with the fixed allow-list.
blocking_task(file, write_ok) ==
  process_csv_to_parquet_bytes(file, ALLOWED_PLATFORMS, write_ok)

convert_filter_and_upload_direct(csv_path, file, prefix, store, panicked, write_ok, put_outcome) ==
  IF panicked THEN Effect(Err("TaskJoin"), <<>>, store)
  ELSE
    LET result_option == blocking_task(file, write_ok) IN
    IF result_option.tag = "Err"
      THEN Effect([tag |-> "Err", kind |-> "CsvProcessing", cause |-> result_option.kind],
                  <<>>, store)
    ELSE IF result_option.tag = "None" THEN Effect(OkNone, <<>>, store)
    ELSE IF csv_path = <<>> THEN Effect(Err("InvalidFilePath"), <<>>, store)
    ELSE
      LET s3_key == prefix \o FileStem(csv_path) \o ".parquet"
          call   == [key |-> s3_key, outcome |-> put_outcome]
      IN  IF put_outcome # "ok"
            THEN Effect([tag |-> "Err", kind |-> "S3Upload", cause |-> S3Detail(put_outcome)],
                        <<call>>, store)
            ELSE Effect([tag |-> "Some", row_count |-> result_option.row_count],
                        <<call>>,
                        [ k \in DOMAIN store \cup {s3_key} |->
                            IF k = s3_key THEN result_option.buffer ELSE store[k] ])

(***************************************************************************)
(* main: the loop over the extracted files.                                *)
(***************************************************************************)
\* The loop body with the error logged and the loop carried on.
SwallowError(result, at) == [status |-> "running", error |-> NoError]

\* `?` on the loop body's result: an Err ends main with that error.
QuestionMark(result, at) ==
  IF result.tag = "Err"
    THEN [status |-> "failed", error |-> [kind |-> result.kind, at |-> at]]
    ELSE [status |-> "running", error |-> NoError]

\* One iteration of `for file_path in &extracted_files`.  The faults of the
\* environment (a worker that panics, a writer or a put that fails) are drawn
\* only where the iteration gets to them.
ProcessFile ==
  /\ run_status = "running"
  /\ idx <= Len(extracted_files)
  /\ LET f       == extracted_files[idx]
         skip    == Extension(f.path) # "csv"
         prefix  == get_s3_prefix(url)
         starts  == ~skip /\ prefix.tag = "Ok"
         encodes == starts /\ blocking_task(f.file, TRUE).tag = "Some"
     IN
     \E panicked    \in IF starts THEN BOOLEAN ELSE {FALSE},
        write_ok    \in IF encodes THEN BOOLEAN ELSE {TRUE},
        put_outcome \in IF encodes THEN PutOutcomes ELSE {"ok"} :
       LET eff   == IF skip THEN Effect([tag |-> "Skipped"], <<>>, bucket)
                    ELSE IF prefix.tag = "Err" THEN Effect(prefix, <<>>, bucket)
                    ELSE convert_filter_and_upload_direct(
                           f.path, f.file, prefix.value, bucket,
                           panicked, write_ok, put_outcome)
           after == QuestionMark(eff.result, idx)
       IN  /\ visited' = Append(visited, idx)
           /\ outcomes' = Append(outcomes, eff.result)
           /\ put_calls' = put_calls \o
                 [ i \in DOMAIN eff.calls |->
                     [key |-> eff.calls[i].key, at |-> idx,
                      outcome |-> eff.calls[i].outcome] ]
           /\ bucket' = eff.store
           /\ run_status' = after.status
           /\ run_error' = after.error
           /\ idx' = IF after.status = "running" THEN idx + 1 ELSE idx
  /\ UNCHANGED <<url, extracted_files, svars, fvars, cvars, uvars>>

\* The loop is over: main prints its summary and returns Ok(()) (or sleeps,
\* with KEEP_ALIVE=true, without touching anything).
FinishRun ==
  /\ run_status = "running"
  /\ idx > Len(extracted_files)
  /\ run_status' = "done"
  /\ UNCHANGED <<url, extracted_files, idx, run_error, bucket, put_calls,
                 visited, outcomes, svars, fvars, cvars, uvars>>

(***************************************************************************)
(* SpecRun: a run of main from the point where the archive is extracted.   *)
(***************************************************************************)
Urls ==
  { [date |-> <<2024, 1, 5>>, variant |-> "light", has_light |-> TRUE],
    [date |-> <<2024, 1, 5>>, variant |-> "full",  has_light |-> FALSE],
    [date |-> <<2024, 1, 5>>, variant |-> "none",  has_light |-> FALSE] }

\* Paths streamed_unzip can return (see the extraction model): two CSV files
\* with the same stem in different directories, a CSV file of another stem, an
\* upper-case .CSV, and a nested archive.
PathA      == ExtractDir \o << <<"a", "csv">> >>
PathInnerA == ExtractDir \o << <<"inner", "">>, <<"a", "csv">> >>
PathB      == ExtractDir \o << <<"b", "csv">> >>
PathUpper  == ExtractDir \o << <<"c", "CSV">> >>
PathZip    == ExtractDir \o << <<"inner", "zip">> >>

FileKeep1   == FileWith(<<Str(Facebook), Str(Nope)>>)
FileKeep2   == FileWith(<<Str(X), Str(Facebook)>>)
FileNoMatch == FileWith(<<Str(FacebookLower), NullCell>>)
FileHeader  == FileWith(<<>>)
FileNoCol   == FileWithout(<<Str(Facebook)>>)

RunFiles ==
  { [path |-> PathA,      file |-> FileKeep1],
    [path |-> PathA,      file |-> FileNoMatch],
    [path |-> PathA,      file |-> FileNoCol],
    [path |-> PathInnerA, file |-> FileKeep2],
    [path |-> PathInnerA, file |-> FileHeader],
    [path |-> PathB,      file |-> FileKeep2],
    [path |-> PathUpper,  file |-> FileKeep1],
    [path |-> PathZip,    file |-> FileHeader] }

InitRun ==
  /\ url \in Urls
  /\ extracted_files \in SeqsUpTo(RunFiles, MaxFiles)
  /\ idx = 1
  /\ run_status = "running"
  /\ run_error = NoError
  /\ bucket = [ k \in {} |-> 0 ]
  /\ put_calls = <<>>
  /\ visited = <<>>
  /\ outcomes = <<>>
  /\ SanitizeIdle /\ FilterIdle /\ CollectorIdle /\ UnzipIdle

NextRun == ProcessFile \/ FinishRun

SpecRun == InitRun /\ [][NextRun]_vars


\* The file at position k has the platform_name column and no row whose
\* platform_name is in the allow-list (a header without rows included).
NoRowAllowed(k) ==
  LET f == extracted_files[k] IN
  /\ Extension(f.path) = "csv"
  /\ f.file.exists
  /\ HasColumn(f.file.columns, "platform_name")
  /\ MatchingRows(f.file, ALLOWED_PLATFORMS) = {}

\* The filter step ran for the n-th visited file: the prefix was derived and
\* the blocking worker came back.
FilterStepRan(n) ==
  outcomes[n].tag # "Skipped" /\
  (outcomes[n].tag = "Err" => outcomes[n].kind \notin {"InvalidUrl", "TaskJoin"})

\* C2: when no row of a file has a platform_name in the allow-list, the filter
\* step gives Ok(None) and not an error, nothing is put for that file, and the
\* run goes on to the next file.
C2_EmptyResultIsSkipped ==
  \A n \in DOMAIN visited :
    (NoRowAllowed(visited[n]) /\ FilterStepRan(n)) =>
       /\ outcomes[n] = OkNone
       /\ \A c \in DOMAIN put_calls : put_calls[c].at # visited[n]
       /\ run_error = NoError \/ run_error.at # visited[n]
       /\ idx > visited[n]

\* C2's case: the first file has no allowed row, and the run went on to
\* publish the second.
C2_Witness ==
  /\ Len(visited) >= 2
  /\ NoRowAllowed(1)
  /\ extracted_files[1].file.rows # <<>>
  /\ outcomes[1] = OkNone
  /\ outcomes[2].tag = "Some"
  /\ Len(put_calls) = 1

\* The artifact a successful put of file k stores.
ArtifactOf(k) == blocking_task(extracted_files[k].file, TRUE).buffer

\* The last successful put to the key of put call c.
LastOkPut(c) ==
  CHOOSE j \in DOMAIN put_calls :
    /\ put_calls[j].key = put_calls[c].key /\ put_calls[j].outcome = "ok"
    /\ \A m \in DOMAIN put_calls :
         (put_calls[m].key = put_calls[c].key /\ put_calls[m].outcome = "ok") => m <= j

\* C3: a fatal outcome for file k (a CSV processing error, a TaskJoin, a failed
\* put of any sub-kind) ends the run with that error at k: the loop body ran
\* for files 1..k and no other, nothing was put for a later file, no put was
\* repeated, and every artifact published before k is still in the store.
C3_FatalStopsRun ==
  /\ \A n \in DOMAIN outcomes :
       outcomes[n].tag = "Err" =>
         /\ n = Len(outcomes)
         /\ run_status = "failed"
         /\ run_error = [kind |-> outcomes[n].kind, at |-> visited[n]]
  /\ run_status = "failed" =>
       /\ visited = [ i \in 1..run_error.at |-> i ]
       /\ idx = run_error.at
       /\ \A c \in DOMAIN put_calls :
            /\ put_calls[c].at <= run_error.at
            /\ put_calls[c].at = run_error.at => put_calls[c].outcome # "ok"
  /\ \A c, d \in DOMAIN put_calls : c < d => put_calls[c].at < put_calls[d].at
  /\ DOMAIN bucket =
       { put_calls[c].key : c \in { d \in DOMAIN put_calls : put_calls[d].outcome = "ok" } }
  /\ \A c \in DOMAIN put_calls :
       put_calls[c].outcome = "ok" =>
         bucket[put_calls[c].key] = ArtifactOf(put_calls[LastOkPut(c)].at)

\* C3's case: the put of the second of three files fails after the first was
\* published; the third is never visited and the first artifact is still there.
C3_Witness ==
  /\ run_status = "failed"
  /\ run_error = [kind |-> "S3Upload", at |-> 2]
  /\ Len(extracted_files) = 3
  /\ Extension(extracted_files[3].path) = "csv"
  /\ visited = <<1, 2>>
  /\ Len(put_calls) = 2
  /\ put_calls[1].outcome = "ok"
  /\ put_calls[1].key # put_calls[2].key
  /\ DOMAIN bucket = { put_calls[1].key }


(***************************************************************************)
(* PlatformDataCollector                                                   *)
(***************************************************************************)
XLower == <<"x">>

\* All orders of the elements of a finite set.
RECURSIVE Perms(_)
Perms(S) ==
  IF S = {} THEN { <<>> }
  ELSE UNION { { <<e>> \o p : p \in Perms(S \ {e}) } : e \in S }

\* Column::unique() of the platform_name column: the distinct cells, in an
\* order polars does not specify (unique is not unique_stable).
UniqueOrders(rows) == Perms({ rows[i].platform_name : i \in DOMAIN rows })

\* .filter(col("platform_name").eq(lit(platform_name))).collect()
RECURSIVE RowsEqual(_, _)
RowsEqual(rows, name) ==
  IF rows = <<>> THEN <<>>
  ELSE LET rest == RowsEqual(Tail(rows), name)
           cell == Head(rows).platform_name
       IN  IF ~cell.null /\ cell.str = name THEN <<Head(rows)>> \o rest ELSE rest

DataFrame(columns, rows) == [columns |-> columns, rows |-> rows]

\* The entry replaced by the new table instead of extended by it.
PushEntryReplacing(data, key, df) ==
  [ k \in DOMAIN data \cup {key} |-> IF k = key THEN <<df>> ELSE data[k] ]

\* self.platform_data.entry(key).or_insert_with(Vec::new).push(df)
PushEntry(data, key, df) ==
  [ k \in DOMAIN data \cup {key} |->
      IF k = key
        THEN (IF key \in DOMAIN data THEN Append(data[key], df) ELSE <<df>>)
        ELSE data[k] ]

\* group_dataframe_by_platform: `order` is the order unique() returned the
\* distinct platform names in.
RECURSIVE group_dataframe_by_platform(_, _, _)
group_dataframe_by_platform(data, df, order) ==
  IF order = <<>> THEN data
  ELSE
    LET platform_value == Head(order) IN
    IF platform_value.null
      THEN group_dataframe_by_platform(data, df, Tail(order))
      ELSE
        LET sanitized_platform == sanitize_platform_name(platform_value.str)
            platform_df        == RowsEqual(df.rows, platform_value.str)
            pushed == IF Len(platform_df) > 0
                        THEN PushEntry(data, sanitized_platform,
                                       DataFrame(df.columns, platform_df))
                        ELSE data
        IN  group_dataframe_by_platform(pushed, df, Tail(order))

Ok == [tag |-> "Ok"]

\* The function with a table that has nothing to ingest recorded as an empty
\* table under "unknown".
add_csv_data_recording_empty(data, allowed, file, order) ==
  IF ~file.exists THEN [result |-> Err("InvalidPath"), data |-> data]
  ELSE IF Len(file.rows) = 0
    THEN [result |-> Ok, data |-> PushEntry(data, Unknown, DataFrame(file.columns, <<>>))]
  ELSE IF ~HasColumn(file.columns, "platform_name")
    THEN [result |-> Err("InvalidPath"), data |-> data]
  ELSE
    LET filtered_df == DataFrame(file.columns, FilterRows(file.rows, allowed)) IN
    IF Len(filtered_df.rows) = 0
      THEN [result |-> Ok, data |-> PushEntry(data, Unknown, filtered_df)]
      ELSE [result |-> Ok,
            data   |-> group_dataframe_by_platform(data, filtered_df, order)]

\* add_csv_data: its return value and self.platform_data after it.
add_csv_data(data, allowed, file, order) ==
  IF ~file.exists THEN [result |-> Err("InvalidPath"), data |-> data]
  ELSE IF Len(file.rows) = 0 THEN [result |-> Ok, data |-> data]
  ELSE IF ~HasColumn(file.columns, "platform_name")
    THEN [result |-> Err("InvalidPath"), data |-> data]
  ELSE
    LET filtered_df == DataFrame(file.columns, FilterRows(file.rows, allowed)) IN
    IF Len(filtered_df.rows) = 0 THEN [result |-> Ok, data |-> data]
    ELSE [result |-> Ok,
          data   |-> group_dataframe_by_platform(data, filtered_df, order)]

\* vstack with the other table's rows cut or padded to this table's columns.
VStackReconciled(a, b) ==
  [tag |-> "Ok",
   value |-> DataFrame(a.columns,
               a.rows \o [ i \in DOMAIN b.rows |->
                             [platform_name |-> b.rows[i].platform_name,
                              x |-> b.rows[i].x] ])]

\* DataFrame::vstack: the other table's rows after this one's; an error when
\* the columns differ.
VStack(a, b) ==
  IF a.columns # b.columns THEN Err("PolarsError")
  ELSE [tag |-> "Ok", value |-> DataFrame(a.columns, a.rows \o b.rows)]

\* The loop of consolidate_platform_data over dataframes[1..].
RECURSIVE VStackAll(_, _)
VStackAll(consolidated, rest) ==
  IF rest = <<>> THEN [tag |-> "Ok", value |-> consolidated]
  ELSE LET r == VStack(consolidated, Head(rest))
       IN  IF r.tag = "Err" THEN r ELSE VStackAll(r.value, Tail(rest))

\* The tables stacked newest first.
consolidate_reversed(data, platform) ==
  IF platform \notin DOMAIN data THEN Err("InvalidPath")
  ELSE LET dataframes == data[platform]
           n == Len(dataframes)
       IN  IF n = 0 THEN Err("EmptyDataFrame")
           ELSE VStackAll(dataframes[n], [ i \in 1..(n-1) |-> dataframes[n - i] ])

\* The function with a key that has no tables answered by an empty table.
consolidate_or_empty(data, platform) ==
  IF platform \notin DOMAIN data \/ data[platform] = <<>>
    THEN [tag |-> "Ok", value |-> DataFrame(<<>>, <<>>)]
    ELSE VStackAll(data[platform][1], Tail(data[platform]))

consolidate_platform_data(data, platform) ==
  IF platform \notin DOMAIN data THEN Err("InvalidPath")
  ELSE LET dataframes == data[platform] IN
       IF dataframes = <<>> THEN Err("EmptyDataFrame")
       ELSE IF Len(dataframes) = 1 THEN [tag |-> "Ok", value |-> dataframes[1]]
       ELSE VStackAll(dataframes[1], Tail(dataframes))

get_platforms(data) == DOMAIN data

platform_count(data) == Cardinality(DOMAIN data)

RECURSIVE SumOver(_, _)
SumOver(S, f) ==
  IF S = {} THEN 0
  ELSE LET e == CHOOSE e \in S : TRUE IN f[e] + SumOver(S \ {e}, f)

total_dataframe_count(data) == SumOver(DOMAIN data, [ k \in DOMAIN data |-> Len(data[k]) ])

RECURSIVE SumHeights(_)
SumHeights(dataframes) ==
  IF dataframes = <<>> THEN 0
  ELSE Len(Head(dataframes).rows) + SumHeights(Tail(dataframes))

get_summary(data) == [ k \in DOMAIN data |-> SumHeights(data[k]) ]

(***************************************************************************)
(* SpecCollector: a collector is built, files are added one at a time, and *)
(* consolidate_platform_data is asked for a key.                           *)
(***************************************************************************)
\* The n-th file given to the collector; x tells its rows apart from every
\* other file's.
CFile(n, columns, cells) ==
  [exists  |-> TRUE,
   columns |-> columns,
   rows    |-> [ i \in DOMAIN cells |->
                   IF columns = <<"platform_name", "x">>
                     THEN [platform_name |-> cells[i], x |-> 10 * n + i]
                   ELSE IF columns = <<"platform_name", "x", "y">>
                     THEN [platform_name |-> cells[i], x |-> 10 * n + i, y |-> 0]
                   ELSE [name |-> cells[i], x |-> 10 * n + i] ]]

\* The shapes of file drawn.  Under the usual header: no rows; one allowed
\* name; two allowed names; an allowed name around a name that is not allowed;
\* two raw names of one key; a null beside an allowed name; nothing allowed.
\* Then an allowed name under a wider header, a header without platform_name
\* (without and with a row), and a path that does not exist.
Shape(columns, cells) == [exists |-> TRUE, columns |-> columns, cells |-> cells]

CollectorShapes ==
  { Shape(<<"platform_name", "x">>, <<>>),
    Shape(<<"platform_name", "x">>, <<Str(GoogleMaps)>>),
    Shape(<<"platform_name", "x">>, <<Str(X), Str(GoogleMaps)>>),
    Shape(<<"platform_name", "x">>, <<Str(GoogleMaps), Str(Nope), Str(GoogleMaps)>>),
    Shape(<<"platform_name", "x">>, <<Str(X), Str(XLower)>>),
    Shape(<<"platform_name", "x">>, <<NullCell, Str(X)>>),
    Shape(<<"platform_name", "x">>, <<NullCell, Str(Nope)>>),
    Shape(<<"platform_name", "x", "y">>, <<Str(GoogleMaps)>>),
    Shape(<<"name", "x">>, <<>>),
    Shape(<<"name", "x">>, <<Str(GoogleMaps)>>),
    [exists |-> FALSE, columns |-> <<>>, cells |-> <<>>] }

\* PlatformDataCollector::new(allowed_platforms)
CollectorAllowLists == { <<GoogleMaps, X, XLower>> }

InitCollector ==
  /\ allowed_platforms \in CollectorAllowLists
  /\ platform_data = [ k \in {} |-> <<>> ]
  /\ c_files = <<>>
  /\ c_results = <<>>
  /\ c_query = NoQuery
  /\ SanitizeIdle /\ FilterIdle /\ RunIdle /\ UnzipIdle

AddCsvData ==
  /\ Len(c_files) < MaxAdds
  /\ \E shape \in CollectorShapes :
       LET file == IF shape.exists
                     THEN CFile(Len(c_files) + 1, shape.columns, shape.cells)
                     ELSE MissingFile
       IN
       \E order \in UniqueOrders(FilterRows(
                       IF HasColumn(file.columns, "platform_name") THEN file.rows ELSE <<>>,
                       allowed_platforms)) :
         LET r == add_csv_data(platform_data, allowed_platforms, file, order)
         IN  /\ platform_data' = r.data
             /\ c_files' = Append(c_files, file)
             /\ c_results' = Append(c_results, r.result)
  /\ c_query' = NoQuery
  /\ UNCHANGED <<allowed_platforms, svars, fvars, rvars, uvars>>

\* A key no allowed name sanitizes to.
AbsentKey == sanitize_platform_name(Nope)

Consolidate ==
  /\ \E platform \in DOMAIN platform_data \cup {AbsentKey} :
       c_query' = [key |-> platform,
                   result |-> consolidate_platform_data(platform_data, platform)]
  /\ UNCHANGED <<allowed_platforms, platform_data, c_files, c_results,
                 svars, fvars, rvars, uvars>>

NextCollector == AddCsvData \/ Consolidate

SpecCollector == InitCollector /\ [][NextCollector]_vars


GoogleMapsKey == <<"g","o","o","g","l","e","-","m","a","p","s">>

\* The call number of the file a table's rows came from.
FileNo(df) == df.rows[1].x \div 10

SameSchema(dataframes) ==
  \A i, j \in DOMAIN dataframes : dataframes[i].columns = dataframes[j].columns

\* The files so far that have a row for the raw name "Google Maps".
FilesWithGoogleMaps ==
  { n \in DOMAIN c_files :
      /\ HasColumn(c_files[n].columns, "platform_name")
      /\ \E i \in DOMAIN c_files[n].rows :
           c_files[n].rows[i].platform_name = Str(GoogleMaps) }

\* C4: for a key with N >= 1 accumulated tables of one schema, consolidation
\* returns their concatenation in accumulation order: the row count is the sum
\* of the N row counts, block n of the result is table n row for row, and for
\* N = 1 the result is that table.  The tables under a key are in the order
\* their files were ingested, and every file with rows for "Google Maps"
\* contributes one table to google-maps.
C4_ConsolidateConcatenates ==
  /\ (/\ c_query.result # NotRun
      /\ c_query.key \in DOMAIN platform_data
      /\ SameSchema(platform_data[c_query.key])) =>
        LET dataframes == platform_data[c_query.key] IN
        /\ c_query.result.tag = "Ok"
        /\ LET out == c_query.result.value IN
           /\ out.columns = dataframes[1].columns
           /\ Len(out.rows) = SumHeights(dataframes)
           /\ \A n \in DOMAIN dataframes : \A i \in DOMAIN dataframes[n].rows :
                out.rows[SumHeights(SubSeq(dataframes, 1, n-1)) + i] = dataframes[n].rows[i]
           /\ Len(dataframes) = 1 => out = dataframes[1]
  /\ \A key \in DOMAIN platform_data :
       \A i, j \in DOMAIN platform_data[key] :
          i < j => FileNo(platform_data[key][i]) <= FileNo(platform_data[key][j])
  /\ FilesWithGoogleMaps # {} =>
       /\ GoogleMapsKey \in DOMAIN platform_data
       /\ { FileNo(platform_data[GoogleMapsKey][i]) : i \in DOMAIN platform_data[GoogleMapsKey] }
            = FilesWithGoogleMaps
       /\ Len(platform_data[GoogleMapsKey]) = Cardinality(FilesWithGoogleMaps)

\* C4's case: two files with "Google Maps" rows (two rows, then one) were
\* ingested, and google-maps was consolidated into three rows.
C4_Witness ==
  /\ Len(c_files) >= 2
  /\ GoogleMapsKey \in DOMAIN platform_data
  /\ Len(platform_data[GoogleMapsKey]) = 2
  /\ Len(platform_data[GoogleMapsKey][1].rows) = 2
  /\ c_query.key = GoogleMapsKey
  /\ c_query.result.tag = "Ok"
  /\ Len(c_query.result.value.rows) = 3
  /\ c_query.result.value.rows[3] = platform_data[GoogleMapsKey][2].rows[1]


\* The files given so far whose table has no platform_name column.
LacksPlatformName(n) ==
  c_files[n].exists /\ ~HasColumn(c_files[n].columns, "platform_name")

\* C11: a file whose table lacks the platform_name column is rejected with
\* an error, with or without data rows; it is never answered with Ok(()).
C11_MissingColumnRejected ==
  \A n \in DOMAIN c_files :
    LacksPlatformName(n) => c_results[n].tag = "Err"

WithEmptyEntry(data, key) ==
  [ k \in DOMAIN data \cup {key} |-> IF k = key THEN <<>> ELSE data[k] ]

\* C13: consolidate_platform_data leaves the accumulator as it is; it
\* returns an error for a key that is not in the accumulator and for a key
\* whose table list is empty, and a table for every key of get_platforms
\* whose tables have one schema.
C13_ConsolidateUnknownKeyFails ==
  [][ c_query' # NoQuery =>
        /\ platform_data' = platform_data
        /\ c_query'.key \notin get_platforms(platform_data') =>
             c_query'.result = Err("InvalidPath")
        /\ (/\ c_query'.key \in get_platforms(platform_data')
            /\ SameSchema(platform_data'[c_query'.key])) =>
             c_query'.result.tag = "Ok"
        /\ consolidate_platform_data(
             WithEmptyEntry(platform_data', AbsentKey), AbsentKey).tag = "Err"
        /\ \A k \in get_platforms(platform_data') : platform_data'[k] # <<>>
    ]_vars

\* C13's case: with google-maps accumulated, a key that is not in the
\* accumulator was asked for and refused.
C13_Witness ==
  /\ GoogleMapsKey \in get_platforms(platform_data)
  /\ c_query.key = AbsentKey
  /\ c_query.key \notin get_platforms(platform_data)
  /\ c_query.result = Err("InvalidPath")

\* The file has a header and no data rows, or has the platform_name column
\* and no row whose platform_name is in the allow-list.
NothingToIngest(file, allowed) ==
  /\ file.exists
  /\ \/ file.rows = <<>>
     \/ /\ HasColumn(file.columns, "platform_name")
        /\ FilterRows(file.rows, allowed) = <<>>

\* The file the add_csv_data step just taken was given.
AddedFile == c_files'[Len(c_files')]

\* C14: add_csv_data on a file with no data rows, or with rows that are all
\* outside the allow-list, returns Ok(()) and leaves the accumulator as it
\* was: the same keys, the same table sequences, the same platform_count and
\* total_dataframe_count (0 and 0 on a new collector).
C14_NothingToIngestIsNoOp ==
  [][ (Len(c_files') = Len(c_files) + 1 /\ NothingToIngest(AddedFile, allowed_platforms)) =>
        /\ c_results'[Len(c_results')] = Ok
        /\ platform_data' = platform_data
        /\ platform_count(platform_data') = platform_count(platform_data)
        /\ total_dataframe_count(platform_data') = total_dataframe_count(platform_data)
        /\ c_files = <<>> =>
             /\ platform_count(platform_data') = 0
             /\ total_dataframe_count(platform_data') = 0
    ]_vars

\* C14's case: after a file that filled the accumulator, a header-only file
\* and a file with no allowed row were both answered with Ok(()), and the
\* accumulator holds the first file's tables only.
C14_Witness ==
  /\ Len(c_files) = 3
  /\ c_files[2].rows = <<>>
  /\ c_files[3].rows # <<>>
  /\ NothingToIngest(c_files[3], allowed_platforms)
  /\ c_results = <<Ok, Ok, Ok>>
  /\ platform_count(platform_data) = 2
  /\ \A k \in DOMAIN platform_data : \A i \in DOMAIN platform_data[k] :
       FileNo(platform_data[k][i]) = 1

\* The rows of the n-th file that have a non-null platform_name of the
\* allow-list (none when the call did not return Ok(())).
AllowedRowsOf(n) ==
  IF c_results[n] = Ok /\ c_files[n].exists
       /\ HasColumn(c_files[n].columns, "platform_name")
    THEN { c_files[n].rows[i] : i \in { j \in DOMAIN c_files[n].rows :
             IsIn(c_files[n].rows[j].platform_name, allowed_platforms) } }
    ELSE {}

IngestedRows == UNION { AllowedRowsOf(n) : n \in DOMAIN c_files }

\* Where the accumulator holds a row: key, table, position in the table.
Held ==
  UNION { UNION { { <<k, t, i>> : i \in DOMAIN platform_data[k][t].rows }
                  : t \in DOMAIN platform_data[k] }
          : k \in DOMAIN platform_data }

RowAt(pl) == platform_data[pl[1]][pl[2]].rows[pl[3]]

SummaryTotal == SumOver(DOMAIN platform_data, get_summary(platform_data))

AccumulatorHoldsIngestedRows ==
  /\ \A pl \in Held :
       /\ RowAt(pl) \in IngestedRows
       /\ pl[1] = sanitize_platform_name(RowAt(pl).platform_name.str)
  /\ \A r \in IngestedRows : Cardinality({ pl \in Held : RowAt(pl) = r }) = 1
  /\ SummaryTotal = Cardinality(IngestedRows)
  /\ \A k \in DOMAIN platform_data :
       /\ platform_data[k] # <<>>
       /\ \A t \in DOMAIN platform_data[k] : platform_data[k][t].rows # <<>>

AccumulatorOnlyAppends ==
  \A k \in DOMAIN platform_data :
    /\ k \in DOMAIN platform_data'
    /\ Len(platform_data'[k]) >= Len(platform_data[k])
    /\ SubSeq(platform_data'[k], 1, Len(platform_data[k])) = platform_data[k]

\* C15: after any sequence of add_csv_data calls the accumulator holds every
\* row of an accepted file whose platform_name is a non-null name of the
\* allow-list exactly once, under the key its raw name sanitizes to and no
\* other; the get_summary totals add up to the number of those rows; every
\* key has a non-empty sequence of non-empty tables; and a call only appends
\* to the sequences there were.
C15_AccumulatorInvariant ==
  /\ []AccumulatorHoldsIngestedRows
  /\ [][AccumulatorOnlyAppends]_vars

\* C15's case: three files were accepted, the raw names "X" and "x" of one
\* file share the key x with a row of another, and google-maps is there too.
C15_Witness ==
  /\ c_results = <<Ok, Ok, Ok>>
  /\ GoogleMapsKey \in DOMAIN platform_data
  /\ XLower \in DOMAIN platform_data
  /\ Len(platform_data[XLower]) = 3
  /\ \E i, j \in DOMAIN platform_data[XLower] :
       /\ platform_data[XLower][i].rows[1].platform_name = Str(X)
       /\ platform_data[XLower][j].rows[1].platform_name = Str(XLower)
       /\ FileNo(platform_data[XLower][i]) = FileNo(platform_data[XLower][j])
  /\ Cardinality(IngestedRows) >= 4

\* The last component of the k-th extracted path: its stem and extension.
LastComponent(k) == extracted_files[k].path[Len(extracted_files[k].path)]

\* C16: the key of a put is the run's prefix, the stem of the file's last
\* path component and ".parquet", whatever directory the file is in; so two
\* CSV files of one stem are put to one key and the store keeps the later
\* artifact; and a put is made only for a path whose extension is "csv".
C16_KeyIsPrefixAndStem ==
  /\ \A c \in DOMAIN put_calls :
       /\ get_s3_prefix(url).tag = "Ok"
       /\ put_calls[c].key =
            get_s3_prefix(url).value \o LastComponent(put_calls[c].at)[1] \o ".parquet"
       /\ LastComponent(put_calls[c].at)[2] = "csv"
  /\ \A c, d \in DOMAIN put_calls :
       LastComponent(put_calls[c].at)[1] = LastComponent(put_calls[d].at)[1] =>
         put_calls[c].key = put_calls[d].key
  /\ \A c, d \in DOMAIN put_calls :
       (/\ c < d
        /\ put_calls[c].key = put_calls[d].key
        /\ put_calls[d].outcome = "ok"
        /\ \A m \in DOMAIN put_calls : m > d => put_calls[m].key # put_calls[d].key) =>
          bucket[put_calls[d].key] = ArtifactOf(put_calls[d].at)
  /\ \A n \in DOMAIN visited :
       LastComponent(visited[n])[2] # "csv" => outcomes[n].tag = "Skipped"

\* C16's case: a.csv of the outer archive and inner/a.csv of a nested one
\* were both published, to one key, and the store holds the second file's
\* artifact only; the upper-case c.CSV was passed over.
C16_Witness ==
  /\ Len(visited) = 3
  /\ extracted_files[1].path = PathA
  /\ extracted_files[2].path = PathInnerA
  /\ extracted_files[3].path = PathUpper
  /\ Len(put_calls) = 2
  /\ put_calls[1].outcome = "ok" /\ put_calls[2].outcome = "ok"
  /\ put_calls[1].key = put_calls[2].key
  /\ DOMAIN bucket = { put_calls[1].key }
  /\ bucket[put_calls[1].key] = ArtifactOf(2)
  /\ ArtifactOf(1) # ArtifactOf(2)
  /\ outcomes[3].tag = "Skipped"

(***************************************************************************)
(* streamed_unzip                                                          *)
(*                                                                         *)
(* An archive is a sequence of entries; an entry has a name and, when it   *)
(* is itself an archive, the archive its bytes hold.  A name is the        *)
(* components of the entry's path, whether the path is absolute, and       *)
(* whether it ends in '/'.                                                 *)
(***************************************************************************)
DotDot == <<"..", "">>

Name(abs, comps, dir) == [abs |-> abs, comps |-> comps, dir |-> dir]

\* extract_to.join(&entry_name): an absolute name replaces the directory.
Join(extract_to, name) == IF name.abs THEN name.comps ELSE extract_to \o name.comps

\* Path::parent
Parent(path) == SubSeq(path, 1, Len(path) - 1)

\* Path::with_extension("")
WithExtension(path) ==
  [ i \in DOMAIN path |-> IF i = Len(path) THEN <<path[i][1], "">> ELSE path[i] ]

\* str::to_lowercase on an extension.
LowerExt(ext) == IF ext \in {"zip", "ZIP", "Zip"} THEN "zip"
                 ELSE IF ext \in {"csv", "CSV"} THEN "csv" ELSE ext

\* entry_name.to_lowercase().ends_with(".zip")
IsZipName(name) == name.comps # <<>> /\ LowerExt(Extension(name.comps)) = "zip"

\* The directory a path names once its ".." components are resolved.
RECURSIVE Normalize(_)
Normalize(path) ==
  IF path = <<>> THEN <<>>
  ELSE LET before == Normalize(Parent(path))
           last   == path[Len(path)]
       IN  IF last = DotDot
             THEN (IF before = <<>> THEN <<>> ELSE Parent(before))
             ELSE Append(before, last)

IsPrefix(p, q) == Len(p) <= Len(q) /\ SubSeq(q, 1, Len(p)) = p

Prefixes(path) == { SubSeq(path, 1, n) : n \in 0..Len(path) }

\* std::fs::create_dir_all makes every missing ancestor the path spells,
\* then the path; it fails when one of them is a file.
create_dir_all(files, path) ==
  LET dirs == { Normalize(q) : q \in Prefixes(path) } IN
  IF \E d \in dirs : d \in DOMAIN files /\ files[d] = "file"
    THEN [ok |-> FALSE, fs |-> files]
    ELSE [ok |-> TRUE,
          fs |-> [ q \in DOMAIN files \cup dirs |-> IF q \in dirs THEN "dir" ELSE files[q] ]]

\* File::create followed by copy: fails when the path is a directory.
FileCreate(files, path) ==
  LET q == Normalize(path) IN
  IF q \in DOMAIN files /\ files[q] = "dir"
    THEN [ok |-> FALSE, fs |-> files]
    ELSE [ok |-> TRUE,
          fs |-> [ r \in DOMAIN files \cup {q} |-> IF r = q THEN "file" ELSE files[r] ]]

\* Lines 27-32 for a regular entry: the parent directories, then the file.
WriteEntry(files, outpath) ==
  LET made == create_dir_all(files, Parent(outpath)) IN
  IF ~made.ok THEN made ELSE FileCreate(made.fs, outpath)

\* The nested archives an entry's bytes can hold.
Archive(id) ==
  CASE id = "in"    -> [valid |-> TRUE,
                        entries |-> << [name |-> Name(FALSE, << <<"a", "csv">> >>, FALSE), holds |-> "data"],
                                       [name |-> Name(FALSE, << <<"deep", "zip">> >>, FALSE), holds |-> "deep"] >>]
    [] id = "deep"  -> [valid |-> TRUE,
                        entries |-> << [name |-> Name(FALSE, << <<"b", "csv">> >>, FALSE), holds |-> "data"] >>]
    [] id = "quine" -> [valid |-> TRUE,
                        entries |-> << [name |-> Name(FALSE, << <<"r", "zip">> >>, FALSE), holds |-> "quine"] >>]
    [] id = "evil"  -> [valid |-> TRUE,
                        entries |-> << [name |-> Name(FALSE, << DotDot, <<"up", "csv">> >>, FALSE), holds |-> "data"],
                                       [name |-> Name(TRUE, << <<"abs", "csv">> >>, FALSE), holds |-> "data"] >>]
    [] OTHER        -> [valid |-> FALSE, entries |-> <<>>]

\* The temporary file main downloaded the archive to.
DownloadedZip == << <<"tmp", "">>, <<"dl", "zip">> >>

\* One active call of streamed_unzip.
Frame(entries, extract_to, zip_path, temp) ==
  [entries         |-> entries,      \* archive
   extract_to      |-> extract_to,
   i               |-> 1,            \* the for loop's index (from 1)
   extracted_files |-> <<>>,
   origins         |-> <<>>,         \* per extracted path, the nested archive's path
   zip_path        |-> zip_path,     \* the path of the archive being expanded
   temp            |-> temp]         \* the NamedTempFile holding it

Top == stack[Len(stack)]

\* The temporary files the nested calls were given are dropped with them
\* (the outermost call's archive belongs to main).
WithoutTemps(files, frames) ==
  LET temps == { frames[n].temp : n \in DOMAIN frames \ {1} } IN
  [ q \in DOMAIN files \ temps |-> files[q] ]

RECURSIVE FlattenFiles(_)
FlattenFiles(frames) ==
  IF frames = <<>> THEN <<>>
  ELSE Head(frames).extracted_files \o FlattenFiles(Tail(frames))

\* An error leaves every active call through `?`: the outermost call returns
\* Err.  depth is the call the error arose in (1 is the outermost); lost is
\* what the calls around it had extracted.
Fail(kind, depth, files) ==
  /\ uz_status' = "failed"
  /\ uz_error' = [kind |-> kind, depth |-> depth,
                  lost |-> FlattenFiles(SubSeq(stack, 1, depth - 1))]
  /\ stack' = <<>>
  /\ fs' = WithoutTemps(files, stack)
  /\ uz_result' = <<>>
  /\ uz_origins' = <<>>

ReplaceTop(frame) == [stack EXCEPT ![Len(stack)] = frame]

\* Lines 12-14 of the outermost call.
OpenArchive ==
  /\ uz_status = "called"
  /\ IF ~uz_root.valid
       THEN Fail("InvalidArchive", 1, fs)
       ELSE /\ stack' = << Frame(uz_root.entries, ExtractDir, <<>>, DownloadedZip) >>
            /\ uz_status' = "running"
            /\ UNCHANGED <<fs, uz_result, uz_origins, uz_error>>
  /\ UNCHANGED <<uz_root, svars, fvars, rvars, cvars>>

\* Lines 21-25: a directory entry.
ExtractDirEntry ==
  /\ uz_status = "running"
  /\ Top.i <= Len(Top.entries)
  /\ LET entry   == Top.entries[Top.i]
         outpath == Join(Top.extract_to, entry.name)
         made    == create_dir_all(fs, outpath)
     IN  /\ entry.name.dir
         /\ IF ~made.ok
              THEN Fail("Io", Len(stack), fs)
              ELSE /\ fs' = made.fs
                   /\ stack' = ReplaceTop([Top EXCEPT !.i = @ + 1])
                   /\ UNCHANGED <<uz_status, uz_result, uz_origins, uz_error>>
  /\ UNCHANGED <<uz_root, svars, fvars, rvars, cvars>>

\* Lines 27-35: a regular entry that is not a nested archive.
ExtractFileEntry ==
  /\ uz_status = "running"
  /\ Top.i <= Len(Top.entries)
  /\ LET entry   == Top.entries[Top.i]
         outpath == Join(Top.extract_to, entry.name)
         written == WriteEntry(fs, outpath)
     IN  /\ ~entry.name.dir
         /\ ~IsZipName(entry.name)
         /\ IF ~written.ok
              THEN Fail("Io", Len(stack), fs)
              ELSE /\ fs' = written.fs
                   /\ stack' = ReplaceTop(
                        [Top EXCEPT !.i = @ + 1,
                                    !.extracted_files = Append(@, outpath),
                                    !.origins = Append(@, Top.zip_path)])
                   /\ UNCHANGED <<uz_status, uz_result, uz_origins, uz_error>>
  /\ UNCHANGED <<uz_root, svars, fvars, rvars, cvars>>

\* Lines 27-47: a regular entry whose name ends in .zip is written, copied to
\* a temporary file in extract_to, and streamed_unzip is called on the copy
\* (lines 12-14 of the nested call).  The model follows MaxDepth calls.
ExtractNestedZip ==
  /\ uz_status = "running"
  /\ Top.i <= Len(Top.entries)
  /\ Len(stack) < MaxDepth
  /\ LET entry   == Top.entries[Top.i]
         outpath == Join(Top.extract_to, entry.name)
         written == WriteEntry(fs, outpath)
         temp    == Top.extract_to \o << <<".tmp" \o ToString(Len(stack)), "">> >>
         inner   == Archive(entry.holds)
         pushed  == [Top EXCEPT !.extracted_files = Append(@, outpath),
                                !.origins = Append(@, Top.zip_path)]
     IN  /\ ~entry.name.dir
         /\ IsZipName(entry.name)
         /\ IF ~written.ok
              THEN Fail("Io", Len(stack), fs)
            ELSE IF ~inner.valid
              THEN /\ uz_status' = "failed"
                   /\ uz_error' = [kind |-> "InvalidArchive", depth |-> Len(stack) + 1,
                                   lost |-> FlattenFiles(ReplaceTop(pushed))]
                   /\ stack' = <<>>
                   /\ fs' = WithoutTemps(written.fs, stack)
                   /\ uz_result' = <<>>
                   /\ uz_origins' = <<>>
            ELSE /\ fs' = FileCreate(written.fs, temp).fs
                 /\ stack' = Append(ReplaceTop(pushed),
                                    Frame(inner.entries, WithExtension(outpath), outpath, temp))
                 /\ UNCHANGED <<uz_status, uz_result, uz_origins, uz_error>>
  /\ UNCHANGED <<uz_root, svars, fvars, rvars, cvars>>

\* Line 52 of a nested call, then lines 46-48 of its caller: the nested list
\* is appended to the caller's, the temporary file is dropped, and the
\* caller's loop moves on.
ReturnNested ==
  /\ uz_status = "running"
  /\ Len(stack) > 1
  /\ Top.i > Len(Top.entries)
  /\ LET caller == stack[Len(stack) - 1]
     IN  stack' = Append(SubSeq(stack, 1, Len(stack) - 2),
                    [caller EXCEPT !.i = @ + 1,
                                   !.extracted_files = @ \o Top.extracted_files,
                                   !.origins = @ \o Top.origins])
  /\ fs' = [ q \in DOMAIN fs \ {Top.temp} |-> fs[q] ]
  /\ UNCHANGED <<uz_root, uz_status, uz_result, uz_origins, uz_error,
                 svars, fvars, rvars, cvars>>

\* Line 52 of the outermost call.
ReturnTop ==
  /\ uz_status = "running"
  /\ Len(stack) = 1
  /\ Top.i > Len(Top.entries)
  /\ uz_status' = "ok"
  /\ uz_result' = Top.extracted_files
  /\ uz_origins' = Top.origins
  /\ stack' = <<>>
  /\ UNCHANGED <<uz_root, fs, uz_error, svars, fvars, rvars, cvars>>

(***************************************************************************)
(* SpecUnzip: one call of streamed_unzip on a drawn archive, into the      *)
(* temporary directory main made.                                          *)
(***************************************************************************)
EntryPool ==
  { [name |-> Name(FALSE, << <<"a", "csv">> >>, FALSE),                  holds |-> "data"],
    [name |-> Name(FALSE, << <<"inner", "">> >>, TRUE),                  holds |-> "data"],
    [name |-> Name(FALSE, << <<"inner", "">>, <<"a", "csv">> >>, FALSE), holds |-> "data"],
    [name |-> Name(FALSE, << <<"inner", "">> >>, FALSE),                 holds |-> "data"],
    [name |-> Name(FALSE, << <<"inner", "zip">> >>, FALSE),              holds |-> "in"],
    [name |-> Name(FALSE, << <<"DEEP", "ZIP">> >>, FALSE),               holds |-> "deep"],
    [name |-> Name(FALSE, << <<"bad", "zip">> >>, FALSE),                holds |-> "garbage"],
    [name |-> Name(FALSE, << <<"r", "zip">> >>, FALSE),                  holds |-> "quine"],
    [name |-> Name(FALSE, << <<"evil", "zip">> >>, FALSE),               holds |-> "evil"],
    [name |-> Name(FALSE, << DotDot, <<"out", "csv">> >>, FALSE),        holds |-> "data"],
    [name |-> Name(TRUE,  << <<"etc", "">>, <<"x", "csv">> >>, FALSE),   holds |-> "data"] }

\* The sequences of at most n entries, no entry twice.
RECURSIVE EntrySeqs(_)
EntrySeqs(n) ==
  IF n = 0 THEN { <<>> }
  ELSE LET shorter == EntrySeqs(n - 1)
       IN  shorter \cup { Append(s, e) : s \in shorter, e \in EntryPool }

DistinctEntries(s) == \A i, j \in DOMAIN s : i # j => s[i] # s[j]

Roots ==
  { [valid |-> TRUE, entries |-> s] : s \in { t \in EntrySeqs(MaxEntries) : DistinctEntries(t) } }
    \cup { [valid |-> FALSE, entries |-> <<>>] }

InitialFs ==
  [ p \in Prefixes(ExtractDir) \cup {DownloadedZip} |->
      IF p = DownloadedZip THEN "file" ELSE "dir" ]

InitUnzip ==
  /\ uz_root \in Roots
  /\ uz_status = "called"
  /\ stack = <<>>
  /\ fs = InitialFs
  /\ uz_result = <<>>
  /\ uz_origins = <<>>
  /\ uz_error = NoError
  /\ SanitizeIdle /\ FilterIdle /\ RunIdle /\ CollectorIdle

NextUnzip ==
  \/ OpenArchive
  \/ ExtractDirEntry
  \/ ExtractFileEntry
  \/ ExtractNestedZip
  \/ ReturnNested
  \/ ReturnTop

SpecUnzip == InitUnzip /\ [][NextUnzip]_vars


(***************************************************************************)
(* Claims about streamed_unzip                                             *)
(***************************************************************************)
PendingEntry == Top.entries[Top.i]

\* C7: expansion of an archive that contains itself stops with an error at
\* a bounded recursion depth: the calls never stand MaxDepth deep with yet
\* another valid nested archive to enter.
C7_RecursionBounded ==
  ~ /\ uz_status = "running"
    /\ Len(stack) = MaxDepth
    /\ Top.i <= Len(Top.entries)
    /\ ~PendingEntry.name.dir
    /\ IsZipName(PendingEntry.name)
    /\ Archive(PendingEntry.holds).valid

Inside(path) == IsPrefix(ExtractDir, Normalize(path))

\* C8: nothing is created outside extract_to, and no path outside
\* extract_to is in the list of a call, returned or being built.
C8_NothingEscapesExtractTo ==
  /\ \A p \in DOMAIN fs : p \in DOMAIN InitialFs \/ Inside(p)
  /\ \A n \in DOMAIN uz_result : Inside(uz_result[n])
  /\ \A d \in DOMAIN stack : \A n \in DOMAIN stack[d].extracted_files :
       Inside(stack[d].extracted_files[n])

\* C9: a failure inside a nested call does not fail the outermost call,
\* which still returns the paths of the entries it had processed.
C9_NestedFailureIsLocal ==
  ~ /\ uz_status = "failed"
    /\ uz_error.depth > 1
    /\ uz_error.lost # <<>>

Occurrences(seq, x) == Cardinality({ n \in DOMAIN seq : seq[n] = x })

\* C10: in a returned list, a file that came out of a nested archive is
\* listed once, lies under the directory named after the nested archive
\* without its extension, and stands after the nested archive's own entry.
C10_NestedFilesListedOnceInPlace ==
  uz_status = "ok" =>
    \A n \in DOMAIN uz_result :
      uz_origins[n] # <<>> =>
        /\ Occurrences(uz_result, uz_result[n]) = 1
        /\ IsPrefix(WithExtension(uz_origins[n]), Normalize(uz_result[n]))
        /\ \E m \in 1..(n - 1) : uz_result[m] = uz_origins[n]


=============================================================================
